---- MODULE Spec2Model ----
(***************************************************************************)
(* Model of src/app.py: a Streamlit roster page.  Each user interaction    *)
(* runs main() once from the top; st.rerun() aborts the current run and    *)
(* runs main() again.  Strings are sequences of Unicode code points, so    *)
(* that joining, splitting, trimming and collation act on characters.      *)
(***************************************************************************)
EXTENDS Integers, Sequences, FiniteSets, TLC

VARIABLES
    records,         \* st.session_state.records: the list of record dicts
    show_confirm,    \* st.session_state["show_confirm_<name>"], keyed by name
    sorted_records,  \* main's sorted_records, as positions (references) into records
    charts,          \* the three count tables create_charts builds in this run
    signal,          \* the st.warning / st.success message the handler issued
    form_inputs,     \* log of the form inputs that built records (chart harness)
    key_names,       \* the two names whose keys are compared (collation harness)
    key_out          \* their keys and the order sorted() puts them in

vars == <<records, show_confirm, sorted_records, charts, signal,
          form_inputs, key_names, key_out>>

---------------------------------------------------------------------------
(* Bounds of the model *)

MaxRecords == 4
MaxChartRecords == 3
MaxNameLen == 2

---------------------------------------------------------------------------
(* Characters and strings *)

Min(S) == CHOOSE x \in S : \A y \in S : x <= y

\* code points for which Python's str.isspace() is true (what str.strip() removes)
IsSpace(c) ==
    \/ 9 <= c /\ c <= 13
    \/ 28 <= c /\ c <= 32
    \/ c = 133 \/ c = 160 \/ c = 5760
    \/ 8192 <= c /\ c <= 8202
    \/ c = 8232 \/ c = 8233 \/ c = 8239 \/ c = 8287 \/ c = 12288

COMMA == 44
SEPARATOR == <<44, 32>>             \* ", "
NONE_TEXT == <<50630, 51020>>       \* the "no allergy" display text
HANGUL_FIRST == 44032               \* ord of the first syllable of the block
HANGUL_LAST == 55203                \* ord of the last syllable of the block
FALLBACK_CHO == 999

---------------------------------------------------------------------------
(* Collation key: decompose_hangul, hangul_sort_key *)

\* slips of decompose_hangul: the leading index divided by 19 * 28, and a
\* fallback triple that does not sort after the syllables
decompose_wrong_divisor(char) ==
    IF ~(HANGUL_FIRST <= char /\ char <= HANGUL_LAST)
    THEN <<FALLBACK_CHO, char, 0>>
    ELSE LET code == char - HANGUL_FIRST
         IN <<code \div (19 * 28), (code \div 28) % 21, code % 28>>

decompose_low_fallback(char) ==
    IF ~(HANGUL_FIRST <= char /\ char <= HANGUL_LAST)
    THEN <<0, char, 0>>
    ELSE LET code == char - HANGUL_FIRST
         IN <<code \div (21 * 28), (code \div 28) % 21, code % 28>>

decompose_hangul(char) ==
    IF ~(HANGUL_FIRST <= char /\ char <= HANGUL_LAST)
    THEN <<FALLBACK_CHO, char, 0>>
    ELSE LET code == char - HANGUL_FIRST
             cho  == code \div (21 * 28)
             jung == (code \div 28) % 21
             jong == code % 28
         IN <<cho, jung, jong>>

hangul_sort_key(name) == [i \in 1..Len(name) |-> decompose_hangul(name[i])]

\* Python's < on tuples of integers: the first differing element decides,
\* a proper prefix is smaller.
TripleLess(a, b) ==
    LET n == IF Len(a) < Len(b) THEN Len(a) ELSE Len(b)
        d == {i \in 1..n : a[i] # b[i]}
    IN IF d = {} THEN Len(a) < Len(b) ELSE a[Min(d)] < b[Min(d)]

\* Python's < on tuples of tuples (the keys sorted() compares)
KeyLess(a, b) ==
    LET n == IF Len(a) < Len(b) THEN Len(a) ELSE Len(b)
        d == {i \in 1..n : a[i] # b[i]}
    IN IF d = {} THEN Len(a) < Len(b) ELSE TripleLess(a[Min(d)], b[Min(d)])

\* sorted(list, key=...): a stable sort that compares keys with < only.
\* keys[i] is the key of the i-th element; the result lists positions.
RECURSIVE sorted_upto(_, _)
sorted_upto(keys, n) ==
    IF n = 0 THEN <<>>
    ELSE LET prev  == sorted_upto(keys, n - 1)
             later == {p \in 1..Len(prev) : KeyLess(keys[n], keys[prev[p]])}
             at    == IF later = {} THEN Len(prev) + 1 ELSE Min(later)
         IN SubSeq(prev, 1, at - 1) \o <<n>> \o SubSeq(prev, at, Len(prev))

\* a sort that puts an element before the equal ones already placed
RECURSIVE unstable_upto(_, _)
unstable_upto(keys, n) ==
    IF n = 0 THEN <<>>
    ELSE LET prev  == unstable_upto(keys, n - 1)
             later == {p \in 1..Len(prev) : ~KeyLess(keys[prev[p]], keys[n])}
             at    == IF later = {} THEN Len(prev) + 1 ELSE Min(later)
         IN SubSeq(prev, 1, at - 1) \o <<n>> \o SubSeq(prev, at, Len(prev))

sorted_unstable(keys) == unstable_upto(keys, Len(keys))

sorted(keys) == sorted_upto(keys, Len(keys))

---------------------------------------------------------------------------
(* Vocabularies *)

SIZE_OPTIONS == <<"S", "M", "L", "XL", "XXL", "XXXL">>

ALLERGY_OPTIONS == <<
    <<50976, 51228, 54408, 58, 32, 50864, 50976>>,
    <<45212, 47448, 58, 32, 45804, 44096>>,
    <<44204, 44284, 47448, 58, 32, 46405, 53097>>,
    <<44204, 44284, 47448, 58, 32, 54840, 46160>>,
    <<44204, 44284, 47448, 58, 32, 48164>>,
    <<44257, 47448, 58, 32, 48128>>,
    <<44257, 47448, 58, 32, 47700, 48128>>,
    <<53097, 47448, 58, 32, 45824, 46160, 40, 53097, 41>>,
    <<54644, 49328, 47932, 58, 32, 49373, 49440, 40, 44256, 46321, 50612, 32, 46321, 41>>,
    <<54644, 49328, 47932, 58, 32, 51312, 44060>>,
    <<54644, 49328, 47932, 58, 32, 44049, 44033, 47448, 40, 49352, 50864, 44, 32, 44172, 41>>,
    <<50977, 47448, 58, 32, 45805, 44256, 44592>>,
    <<44284, 51068, 32, 48143, 32, 52292, 49548, 58, 32, 48373, 49709, 50500>>,
    <<44284, 51068, 32, 48143, 32, 52292, 49548, 58, 32, 53664, 47560, 53664>> >>

Range(f) == {f[i] : i \in DOMAIN f}

\* the three records init_session_state seeds
SeedRecords == <<
    [name |-> <<44608, 48124, 49688>>, hat_size |-> "M", cloth_size |-> "L",
     allergy_text |-> ALLERGY_OPTIONS[2] \o SEPARATOR \o ALLERGY_OPTIONS[11]],
    [name |-> <<51060, 50689, 55148>>, hat_size |-> "S", cloth_size |-> "M",
     allergy_text |-> ALLERGY_OPTIONS[3] \o SEPARATOR \o ALLERGY_OPTIONS[4]],
    [name |-> <<48149, 52384, 49688>>, hat_size |-> "XL", cloth_size |-> "XL",
     allergy_text |-> ALLERGY_OPTIONS[9]] >>

---------------------------------------------------------------------------
(* String operations of add_record and create_charts *)

\* a join with "," alone between the tags
RECURSIVE join_no_space(_)
join_no_space(allergies) ==
    IF Len(allergies) = 0 THEN <<>>
    ELSE IF Len(allergies) = 1 THEN allergies[1]
    ELSE allergies[1] \o <<COMMA>> \o join_no_space(Tail(allergies))

\* ", ".join(allergies)
RECURSIVE join(_)
join(allergies) ==
    IF Len(allergies) = 0 THEN <<>>
    ELSE IF Len(allergies) = 1 THEN allergies[1]
    ELSE allergies[1] \o SEPARATOR \o join(Tail(allergies))

\* the position of the first comma of text at or after i, 0 when there is none
RECURSIVE find_comma(_, _)
find_comma(text, i) ==
    IF i > Len(text) THEN 0
    ELSE IF text[i] = COMMA THEN i
    ELSE find_comma(text, i + 1)

\* text.split(","): the pieces between commas, empty pieces kept
RECURSIVE split(_)
split(text) ==
    LET c == find_comma(text, 1)
    IN IF c = 0 THEN <<text>>
       ELSE <<SubSeq(text, 1, c - 1)>> \o split(SubSeq(text, c + 1, Len(text)))

RECURSIVE lstrip(_)
lstrip(a) == IF a # <<>> /\ IsSpace(Head(a)) THEN lstrip(Tail(a)) ELSE a

RECURSIVE rstrip(_)
rstrip(a) ==
    IF a # <<>> /\ IsSpace(a[Len(a)]) THEN rstrip(SubSeq(a, 1, Len(a) - 1)) ELSE a

\* a.strip(): leading and trailing whitespace removed
strip(a) == rstrip(lstrip(a))

\* a tally that stores 1 instead of adding 1
RECURSIVE tally_overwrite(_, _)
tally_overwrite(d, keys) ==
    IF keys = <<>> THEN d
    ELSE tally_overwrite([x \in DOMAIN d \cup {Head(keys)} |->
                             IF x = Head(keys) THEN 1 ELSE d[x]],
                         Tail(keys))

\* d[k] = d.get(k, 0) + 1 for each k of keys in turn; a dict is a function
RECURSIVE tally(_, _)
tally(d, keys) ==
    IF keys = <<>> THEN d
    ELSE LET k == Head(keys)
             n == IF k \in DOMAIN d THEN d[k] ELSE 0
         IN tally([x \in DOMAIN d \cup {k} |-> IF x = k THEN n + 1 ELSE d[x]],
                  Tail(keys))

EmptyDict == [x \in {} |-> 0]

\* the tags create_charts counts for one record's allergy text
allergy_list(allergies) ==
    IF allergies # <<>> /\ allergies # NONE_TEXT
    THEN LET parts == split(allergies)
         IN [i \in 1..Len(parts) |-> strip(parts[i])]
    ELSE <<>>

RECURSIVE all_allergies(_)
all_allergies(recs) ==
    IF recs = <<>> THEN <<>>
    ELSE allergy_list(Head(recs).allergy_text) \o all_allergies(Tail(recs))

\* create_charts up to the point where the tables are handed to the plots
create_charts(recs) ==
    IF recs = <<>>
    THEN [hat_size_counts |-> EmptyDict, cloth_size_counts |-> EmptyDict,
          allergy_counts |-> EmptyDict]
    ELSE [hat_size_counts |->
              tally(EmptyDict, [i \in 1..Len(recs) |-> recs[i].hat_size]),
          cloth_size_counts |->
              tally(EmptyDict, [i \in 1..Len(recs) |-> recs[i].cloth_size]),
          allergy_counts |-> tally(EmptyDict, all_allergies(recs))]

---------------------------------------------------------------------------
(* Session state and the handlers of main() *)

NoSignal == [kind |-> "none", name |-> <<>>]
NoKeys == [keys |-> <<>>, order |-> <<>>, less |-> FALSE]

\* st.session_state.get("show_confirm_<name>", False)
get_show_confirm(name) ==
    IF name \in DOMAIN show_confirm THEN show_confirm[name] ELSE FALSE

\* st.session_state["show_confirm_<name>"] = value
set_show_confirm(name, value) ==
    [x \in DOMAIN show_confirm \cup {name} |->
        IF x = name THEN value ELSE show_confirm[x]]

\* del st.session_state["show_confirm_<name>"], when the key is present
del_show_confirm(name) ==
    [x \in DOMAIN show_confirm \ {name} |-> show_confirm[x]]

\* a record whose allergy text is the bare join, empty for no tags
new_record_no_sentinel(name, hat_size, cloth_size, allergies) ==
    [name |-> name, hat_size |-> hat_size, cloth_size |-> cloth_size,
     allergy_text |-> join(allergies)]

\* the dict add_record appends
new_record(name, hat_size, cloth_size, allergies) ==
    [name |-> name, hat_size |-> hat_size, cloth_size |-> cloth_size,
     allergy_text |-> IF allergies # <<>> THEN join(allergies) ELSE NONE_TEXT]

\* an add_record that does not test the name
add_record_unchecked(name, hat_size, cloth_size, allergies) ==
    /\ records' = Append(records,
                         new_record(name, hat_size, cloth_size, allergies))
    /\ signal' = [kind |-> "added", name |-> name]

add_record(name, hat_size, cloth_size, allergies) ==
    IF name = <<>>
    THEN /\ signal' = [kind |-> "warning", name |-> <<>>]
         /\ records' = records
    ELSE /\ records' = Append(records,
                              new_record(name, hat_size, cloth_size, allergies))
         /\ signal' = [kind |-> "added", name |-> name]

\* list.pop(index), index counted from 0
pop(list, index) ==
    SubSeq(list, 1, index) \o SubSeq(list, index + 2, Len(list))

\* delete_record's test; when it passes the record is popped and st.rerun()
\* ends the run, so nothing after the call is executed
delete_in_range(index) == 0 <= index /\ index < Len(records)

delete_record(index) ==
    IF delete_in_range(index)
    THEN /\ signal' = [kind |-> "deleted", name |-> records[index + 1].name]
         /\ records' = pop(records, index)
    ELSE /\ signal' = NoSignal
         /\ records' = records

\* the positions (from 0) the 'yes' handler's loop visits with a matching name;
\* the loop calls delete_record on the first and breaks
matching(name) == {i \in 0..(Len(records) - 1) : records[i + 1].name = name}

\* the last matching position instead of the first
last_match(name) ==
    CHOOSE i \in matching(name) : \A j \in matching(name) : j <= i

\* the position the loop stops at: the first with a matching name
first_match(name) == Min(matching(name))

\* the part of main() that renders the list and the charts from the store
render(recs) ==
    /\ sorted_records' =
         IF recs = <<>> THEN <<>>
         ELSE sorted([i \in 1..Len(recs) |-> hangul_sort_key(recs[i].name)])
    /\ charts' = create_charts(recs)

\* the record shown in row idx (from 0) of the list
shown(idx) == records[sorted_records[idx + 1]]

Rows == 0..(Len(sorted_records) - 1)

---------------------------------------------------------------------------
(* Inputs of the session model *)

NameInputs == {<<>>, <<32>>, <<44608, 48124, 49688>>}
HatInputs == {"M"}
ClothInputs == {"L"}
TagInputs == {<<>>, <<ALLERGY_OPTIONS[11], ALLERGY_OPTIONS[2]>>}

---------------------------------------------------------------------------
(* One run of main() per user interaction *)

\* the form is submitted
Submit(name, hat_size, cloth_size, allergies) ==
    /\ name = <<>> \/ Len(records) < MaxRecords
    /\ add_record(name, hat_size, cloth_size, allergies)
    /\ render(records')
    /\ UNCHANGED <<show_confirm, form_inputs, key_names, key_out>>

\* the delete button of row idx is pressed: the flag is toggled, then st.rerun()
ClickDelete(idx) ==
    /\ idx \in Rows
    /\ show_confirm' =
         IF get_show_confirm(shown(idx).name)
         THEN set_show_confirm(shown(idx).name, FALSE)
         ELSE set_show_confirm(shown(idx).name, TRUE)
    /\ signal' = NoSignal
    /\ records' = records
    /\ render(records')
    /\ UNCHANGED <<form_inputs, key_names, key_out>>

\* the 'yes' button of row idx's dialog is pressed
ClickYes(idx) ==
    /\ idx \in Rows
    /\ get_show_confirm(shown(idx).name)
    /\ LET name == shown(idx).name
           found == matching(name)
       IN /\ IF found # {}
             THEN delete_record(first_match(name))
             ELSE signal' = NoSignal /\ records' = records
          /\ show_confirm' =
               IF found # {} /\ delete_in_range(first_match(name))
               THEN show_confirm
               ELSE del_show_confirm(name)
    /\ render(records')
    /\ UNCHANGED <<form_inputs, key_names, key_out>>

\* the 'no' button of row idx's dialog is pressed
ClickNo(idx) ==
    /\ idx \in Rows
    /\ get_show_confirm(shown(idx).name)
    /\ show_confirm' = set_show_confirm(shown(idx).name, FALSE)
    /\ signal' = NoSignal
    /\ records' = records
    /\ render(records')
    /\ UNCHANGED <<form_inputs, key_names, key_out>>

Init ==
    /\ records = SeedRecords
    /\ show_confirm = [x \in {} |-> FALSE]
    /\ sorted_records =
         sorted([i \in 1..Len(SeedRecords) |-> hangul_sort_key(SeedRecords[i].name)])
    /\ charts = create_charts(SeedRecords)
    /\ signal = NoSignal
    /\ form_inputs = <<>>
    /\ key_names = <<>>
    /\ key_out = NoKeys

Next ==
    \/ \E name \in NameInputs, hat_size \in HatInputs,
          cloth_size \in ClothInputs, allergies \in TagInputs :
            Submit(name, hat_size, cloth_size, allergies)
    \/ \E idx \in 0..(MaxRecords - 1) : ClickDelete(idx)
    \/ \E idx \in 0..(MaxRecords - 1) : ClickYes(idx)
    \/ \E idx \in 0..(MaxRecords - 1) : ClickNo(idx)

Spec == Init /\ [][Next]_vars

---------------------------------------------------------------------------
(* Chart harness: the store is rebuilt from empty through the form, and    *)
(* the inputs are logged beside it.  It starts where the session is once   *)
(* the three seeded records have been deleted.                             *)

ChartName == <<54861, 44600, 46041>>
ChartHatInputs == {"S", "M", "XL", "XXXL"}
ChartClothInputs == {"L", "XL"}
ChartTagInputs ==
    {<<>>, <<ALLERGY_OPTIONS[2]>>, <<ALLERGY_OPTIONS[2], ALLERGY_OPTIONS[11]>>}

SeedNames == {SeedRecords[i].name : i \in 1..Len(SeedRecords)}

ChartSubmit(hat_size, cloth_size, allergies) ==
    /\ Len(records) < MaxChartRecords
    /\ add_record(ChartName, hat_size, cloth_size, allergies)
    /\ render(records')
    /\ form_inputs' = Append(form_inputs,
                             [hat_size |-> hat_size, cloth_size |-> cloth_size,
                              allergies |-> allergies])
    /\ UNCHANGED <<show_confirm, key_names, key_out>>

InitChart ==
    /\ records = <<>>
    /\ show_confirm = [x \in SeedNames |-> TRUE]
    /\ sorted_records = <<>>
    /\ charts = create_charts(<<>>)
    /\ signal \in {[kind |-> "deleted", name |-> n] : n \in SeedNames}
    /\ form_inputs = <<>>
    /\ key_names = <<>>
    /\ key_out = NoKeys

NextChart ==
    \E hat_size \in ChartHatInputs, cloth_size \in ChartClothInputs,
       allergies \in ChartTagInputs :
         ChartSubmit(hat_size, cloth_size, allergies)

SpecChart == InitChart /\ [][NextChart]_vars

---------------------------------------------------------------------------
(* Collation harness: two names are given to sorted() as main() does with  *)
(* the names of the records, and their keys are compared.                  *)

\* the first syllable, its neighbours in trailing, vowel and leading index, the
\* last syllable before a new leading index, the last syllable of the block,
\* and two characters outside the block, one below and one above it
KeyChars == {44032, 44033, 44059, 44060, 44619, 44620, 55203, 65, 55204}
KeyNames == UNION {[1..n -> KeyChars] : n \in 0..MaxNameLen}

CompareNames ==
    /\ key_out = NoKeys
    /\ LET keys == [i \in 1..2 |-> hangul_sort_key(key_names[i])]
       IN key_out' = [keys |-> keys, order |-> sorted(keys),
                      less |-> KeyLess(keys[1], keys[2])]
    /\ UNCHANGED <<records, show_confirm, sorted_records, charts, signal,
                   form_inputs, key_names>>

InitKey ==
    /\ records = SeedRecords
    /\ show_confirm = [x \in {} |-> FALSE]
    /\ sorted_records =
         sorted([i \in 1..Len(SeedRecords) |-> hangul_sort_key(SeedRecords[i].name)])
    /\ charts = create_charts(SeedRecords)
    /\ signal = NoSignal
    /\ form_inputs = <<>>
    /\ key_names \in KeyNames \X KeyNames
    /\ key_out = NoKeys

NextKey == CompareNames

SpecKey == InitKey /\ [][NextKey]_vars

---------------------------------------------------------------------------
(* Properties *)

Sizes == {"S", "M", "L", "XL", "XXL", "XXXL"}
Tags == Range(ALLERGY_OPTIONS)

\* a precedes b in the lexicographic order built on Before; a proper prefix
\* precedes
LexBefore(a, b, Before(_, _)) ==
    \E i \in 1..(Len(a) + 1) :
        /\ \A j \in 1..(i - 1) : j <= Len(b) /\ a[j] = b[j]
        /\ \/ i = Len(a) + 1 /\ i <= Len(b)
           \/ i <= Len(a) /\ i <= Len(b) /\ Before(a[i], b[i])

TripleBefore(a, b) ==
    \/ a[1] < b[1]
    \/ a[1] = b[1] /\ a[2] < b[2]
    \/ a[1] = b[1] /\ a[2] = b[2] /\ a[3] < b[3]

KeyBefore(a, b) == LexBefore(a, b, TripleBefore)

CodeBefore(a, b) == a < b

InBlock(c) == 44032 <= c /\ c <= 55203

AllInBlock(name) == \A i \in 1..Len(name) : InBlock(name[i])

\* the start of the i-th tag in the tags joined with a two-character separator
RECURSIVE JoinOffset(_, _)
JoinOffset(a, i) ==
    IF i = 1 THEN 0 ELSE JoinOffset(a, i - 1) + Len(a[i - 1]) + 2

\* text is the tags of a, in order, with ", " between neighbours
IsJoinOf(text, a) ==
    /\ Len(text) = JoinOffset(a, Len(a)) + Len(a[Len(a)])
    /\ \A i \in 1..Len(a) :
         LET o == JoinOffset(a, i)
         IN /\ SubSeq(text, o + 1, o + Len(a[i])) = a[i]
            /\ i < Len(a) => /\ text[o + Len(a[i]) + 1] = 44
                             /\ text[o + Len(a[i]) + 2] = 32

\* text is the join of some non-empty list of vocabulary tags
RECURSIVE IsTagJoin(_)
IsTagJoin(text) ==
    \E t \in Tags :
        /\ Len(text) >= Len(t)
        /\ SubSeq(text, 1, Len(t)) = t
        /\ \/ Len(text) = Len(t)
           \/ /\ Len(text) > Len(t) + 2
              /\ SubSeq(text, Len(t) + 1, Len(t) + 2) = <<44, 32>>
              /\ IsTagJoin(SubSeq(text, Len(t) + 3, Len(text)))

\* recs is list with the element at position i (from 1) taken out
IsRemovalAt(recs, list, i) ==
    /\ Len(recs) = Len(list) - 1
    /\ \A j \in 1..(i - 1) : recs[j] = list[j]
    /\ \A j \in i..Len(recs) : recs[j] = list[j + 1]

BlankNames == {n \in NameInputs : \A i \in 1..Len(n) : IsSpace(n[i])}

\* C1, as stated: a form submission whose name is empty or only whitespace
\* leaves the record store as it was and signals only a warning.
C1_BlankNameRejected ==
    [][\A name \in BlankNames, hat_size \in HatInputs,
          cloth_size \in ClothInputs, allergies \in TagInputs :
            Submit(name, hat_size, cloth_size, allergies)
                => records' = records /\ signal'.kind = "warning"]_vars

\* C1, amended: a form submission whose name is the empty string leaves the
\* record store as it was and signals only a warning; a name that is not
\* empty, whitespace included, is appended.
C1_EmptyNameRejected ==
    [][\A name \in NameInputs, hat_size \in HatInputs,
          cloth_size \in ClothInputs, allergies \in TagInputs :
            Submit(name, hat_size, cloth_size, allergies)
                => IF name = <<>>
                   THEN /\ records' = records
                        /\ signal' = [kind |-> "warning", name |-> <<>>]
                   ELSE /\ Len(records') = Len(records) + 1
                        /\ signal'.kind # "warning"]_vars

C1_Witness == signal.kind = "warning" /\ Len(records) >= 1

\* C2: the allergy count table has, for each vocabulary tag, the number of
\* records whose selected tags contain it (no entry when that is 0), and no
\* key outside the vocabulary.
C2_AllergyCountsPerTag ==
    /\ DOMAIN charts.allergy_counts \subseteq Tags
    /\ \A t \in Tags :
         LET n == Cardinality({i \in 1..Len(form_inputs) :
                                 t \in Range(form_inputs[i].allergies)})
         IN IF n = 0 THEN t \notin DOMAIN charts.allergy_counts
            ELSE /\ t \in DOMAIN charts.allergy_counts
                 /\ charts.allergy_counts[t] = n

\* C3: a form submission with a non-empty name appends exactly one record:
\* the records stored before keep position and fields, and the new last
\* record has the given name and sizes and the tags joined by ", " in the
\* given order, or the none text for no tags.
C3_AddAppendsOneRecord ==
    [][\A name \in NameInputs \ {<<>>}, hat_size \in HatInputs,
          cloth_size \in ClothInputs, allergies \in TagInputs :
            Submit(name, hat_size, cloth_size, allergies)
                => /\ Len(records') = Len(records) + 1
                   /\ \A i \in 1..Len(records) : records'[i] = records[i]
                   /\ LET last == records'[Len(records')]
                      IN /\ last.name = name
                         /\ last.hat_size = hat_size
                         /\ last.cloth_size = cloth_size
                         /\ IF allergies = <<>>
                            THEN last.allergy_text = <<50630, 51020>>
                            ELSE IsJoinOf(last.allergy_text, allergies)]_vars

C3_Witness ==
    /\ signal.kind = "added"
    /\ Len(records) >= 2
    /\ records[Len(records)].name = signal.name
    /\ records[Len(records)].allergy_text # NONE_TEXT

\* C4: confirming the deletion in the row of a record named n removes
\* exactly the first record of the store named n, also when several records
\* have that name; the others keep fields and relative order.
C4_ConfirmDeletesFirstMatch ==
    [][\A idx \in 0..(MaxRecords - 1) :
          ClickYes(idx)
              => LET n == shown(idx).name
                     named == {i \in 1..Len(records) : records[i].name = n}
                 IN \E i \in named :
                        /\ \A j \in named : i <= j
                        /\ IsRemovalAt(records', records, i)]_vars

C4_Witness ==
    /\ signal.kind = "deleted"
    /\ \E i \in 1..Len(records) : records[i].name = signal.name

\* C5: for a non-empty store the hat-size table, and likewise the cloth-size
\* table, has an entry exactly for the sizes some record has, each entry is
\* the number of records with that size, and sizes no record has get no
\* entry.
C5_SizeCounts ==
    records # <<>> =>
        /\ DOMAIN charts.hat_size_counts =
             {records[i].hat_size : i \in 1..Len(records)}
        /\ DOMAIN charts.cloth_size_counts =
             {records[i].cloth_size : i \in 1..Len(records)}
        /\ \A s \in Sizes :
             LET hats   == Cardinality({i \in 1..Len(records) :
                                          records[i].hat_size = s})
                 cloths == Cardinality({i \in 1..Len(records) :
                                          records[i].cloth_size = s})
             IN /\ IF hats = 0 THEN s \notin DOMAIN charts.hat_size_counts
                   ELSE charts.hat_size_counts[s] = hats
                /\ IF cloths = 0 THEN s \notin DOMAIN charts.cloth_size_counts
                   ELSE charts.cloth_size_counts[s] = cloths

C5_Witness ==
    /\ Len(records) = 3
    /\ \E s \in DOMAIN charts.hat_size_counts : charts.hat_size_counts[s] = 2
    /\ \E s \in DOMAIN charts.cloth_size_counts : charts.cloth_size_counts[s] = 3
    /\ Sizes \ DOMAIN charts.hat_size_counts # {}

\* C6: for names made of syllables of the block only, every key element is
\* a triple (leading 0..18, vowel 0..20, trailing 0..27) that determines the
\* syllable, one key is less than the other exactly when it precedes it in
\* the lexicographic order of the triples, and the empty name has the empty
\* key and sorts before every other name.
C6_SyllableKeyOrder ==
    (key_out.keys # <<>> /\ AllInBlock(key_names[1]) /\ AllInBlock(key_names[2]))
    => /\ \A n \in 1..2 :
            /\ Len(key_out.keys[n]) = Len(key_names[n])
            /\ \A i \in 1..Len(key_names[n]) :
                 LET t == key_out.keys[n][i]
                 IN /\ Len(t) = 3
                    /\ t[1] \in 0..18 /\ t[2] \in 0..20 /\ t[3] \in 0..27
                    /\ t[1] * 588 + t[2] * 28 + t[3] = key_names[n][i] - 44032
       /\ key_out.less <=> KeyBefore(key_out.keys[1], key_out.keys[2])
       /\ key_out.less <=> LexBefore(key_names[1], key_names[2], CodeBefore)
       /\ key_names[1] = <<>> =>
            /\ key_out.keys[1] = <<>>
            /\ key_names[2] # <<>> => key_out.less

C6_Witness ==
    /\ key_out.keys # <<>>
    /\ AllInBlock(key_names[1]) /\ AllInBlock(key_names[2])
    /\ Len(key_names[1]) = 2 /\ Len(key_names[2]) = 2
    /\ key_names[1][1] = key_names[2][1]
    /\ key_out.keys[1][2][1] = key_out.keys[2][2][1]
    /\ key_out.keys[1][2][2] < key_out.keys[2][2][2]
    /\ key_out.less

\* C7: a character outside the block has the triple (999, code point, 0),
\* whose first component exceeds that of every syllable's triple; names that
\* first differ where one has a syllable and the other has not are ordered
\* syllable first, and names that first differ at two characters outside the
\* block are ordered by code point.
C7_OutsideBlockSortsLast ==
    key_out.keys # <<>>
    => /\ \A n \in 1..2 : \A i \in 1..Len(key_names[n]) :
            ~InBlock(key_names[n][i]) =>
                /\ key_out.keys[n][i] = <<999, key_names[n][i], 0>>
                /\ \A m \in 1..2 : \A j \in 1..Len(key_names[m]) :
                     InBlock(key_names[m][j]) =>
                         key_out.keys[m][j][1] < key_out.keys[n][i][1]
       /\ LET a == key_names[1]
              b == key_names[2]
              d == {i \in 1..Len(a) : i <= Len(b) /\ a[i] # b[i]}
          IN d # {} =>
               LET i == Min(d)
               IN /\ InBlock(a[i]) /\ ~InBlock(b[i]) => key_out.less
                  /\ ~InBlock(a[i]) /\ InBlock(b[i]) => ~key_out.less
                  /\ ~InBlock(a[i]) /\ ~InBlock(b[i]) =>
                       (key_out.less <=> a[i] < b[i])

C7_Witness ==
    /\ key_out.keys # <<>>
    /\ Len(key_names[1]) = 2 /\ Len(key_names[2]) = 2
    /\ key_names[1][1] = key_names[2][1]
    /\ InBlock(key_names[1][2]) /\ ~InBlock(key_names[2][2])
    /\ key_names[2][2] < key_names[1][2]
    /\ key_out.less

\* C8: every stored record has a non-empty name, a hat size and a cloth size
\* of the size enumeration, and an allergy text that is the none text or
\* the join of a non-empty list of vocabulary tags.
C8_StoredRecordsWellFormed ==
    \A i \in 1..Len(records) :
        /\ records[i].name # <<>>
        /\ records[i].hat_size \in Sizes
        /\ records[i].cloth_size \in Sizes
        /\ \/ records[i].allergy_text = <<50630, 51020>>
           \/ IsTagJoin(records[i].allergy_text)

C8_Witness ==
    /\ Len(records) >= 3
    /\ \E i \in 1..Len(records) : records[i].allergy_text = NONE_TEXT
    /\ \E i \in 1..Len(records) : records[i].name = <<32>>
    /\ signal.kind = "deleted"

C9_Arranged ==
    /\ Len(sorted_records) = Len(records)
    /\ {sorted_records[p] : p \in 1..Len(sorted_records)} = 1..Len(records)
    /\ \A p \in 1..Len(sorted_records) : \A q \in (p + 1)..Len(sorted_records) :
         LET kp == hangul_sort_key(records[sorted_records[p]].name)
             kq == hangul_sort_key(records[sorted_records[q]].name)
         IN /\ ~KeyBefore(kq, kp)
            /\ kp = kq => sorted_records[p] < sorted_records[q]

\* C9: the displayed list holds every position of the store exactly once,
\* in non-decreasing key order of the names, records of equal key in store
\* order; the store is not changed by displaying it, and a run that leaves
\* the store as it was displays the same list again.
C9_DisplayedListSorted ==
    /\ []C9_Arranged
    /\ [][records' = records => sorted_records' = sorted_records]_vars

C9_Witness ==
    /\ \E p \in 1..Len(sorted_records) : sorted_records[p] # p
    /\ \E p \in 1..Len(sorted_records) : \E q \in (p + 1)..Len(sorted_records) :
         /\ records[sorted_records[p]].name = records[sorted_records[q]].name
         /\ records[sorted_records[p]] # records[sorted_records[q]]
    /\ signal.kind = "none"

\* C10: once the deletion of a record named n has been confirmed, the flag
\* show_confirm_n is no longer set in the session state.
C10_FlagClearedOnConfirm ==
    signal.kind = "deleted" => signal.name \notin DOMAIN show_confirm

====
